---- MODULE Spec2Model ----
(***************************************************************************)
(* Model of make_feed.py: the comics feed generator.                       *)
(*                                                                         *)
(* Strings are modelled as sequences of tokens (a token is a run of        *)
(* characters that the program never splits), so that Python's             *)
(* `needle in s`, `s.startswith(p)` and the regular expressions become     *)
(* computations on sequences.  The empty string is the empty sequence.     *)
(*                                                                         *)
(* Two specifications:                                                     *)
(*   Spec        runs of main() over the state file, the image cache and   *)
(*               the feed file, with failing fetches and crashes;          *)
(*   SpecExtract fetch_gocomics_strip_image_url on bounded pages.          *)
(***************************************************************************)
EXTENDS Integers, Sequences, FiniteSets, TLC

(***************************************************************************)
(* Bounds of the model.                                                    *)
(***************************************************************************)
\* runs of main() that are started
MaxRuns == 2
\* the state file found by the first run is absent, or was left by a number
\* of earlier days that fills the history, or by up to PrefillSlack fewer
PrefillSlack == 0
\* failures injected under Spec (transport errors, failed downloads, crashes)
MaxFaults == 1
\* strings of a page under SpecExtract: the string leaves of its
\* __NEXT_DATA__ payload and the URLs in its markup outside the payload
MaxUrls == 3

(***************************************************************************)
(* Strings as token sequences.                                             *)
(***************************************************************************)
EmptyStr == <<>>

\* Python: needle in s
Contains(s, needle) ==
    \E i \in 0..(Len(s) - Len(needle)) :
        \A j \in 1..Len(needle) : s[i + j] = needle[j]

\* Python: s.startswith(p)
StartsWith(s, p) ==
    /\ Len(p) <= Len(s)
    /\ \A j \in 1..Len(p) : s[j] = p[j]

\* tokens made of characters of [A-Za-z0-9] only
\* (every other token starts with a character outside that class, so a
\* match of [A-Za-z0-9]+ is a maximal run of these tokens)
AlnumToks == {"a1b2", "GC", "FB", "strip", "img", "width", "logo", "LOGO"}

\* tokens holding whitespace or a quote: they end a match of [^\s"']+
DelimToks == {"\"", " "}

\* str.lower() on a token sequence
LowerTok(t) == IF t = "LOGO" THEN "logo" ELSE t

Lower(s) == [i \in 1..Len(s) |-> LowerTok(s[i])]

(***************************************************************************)
(* The strings of the bounded pages.                                       *)
(***************************************************************************)
UrlAmu == <<"https:", "//", "assets.amuniversal.com/", "a1b2">>

UrlFeatGo ==
    <<"https:", "//", "feature", "assets.gocomics.com/", "assets/", "strip",
      "?", "width", "=2800">>

UrlFeatAmu ==
    <<"https:", "//", "feature", "assets.amuniversal.com/", "assets/", "strip">>

UrlCms == <<"https:", "//", "gocomicscms", "assets.gocomics.com/", "img", ".png">>

SocialCms ==
    <<"https:", "//", "gocomicscms", "assets.gocomics.com/", "GC", "_Social_",
      "FB", "_", "img", ".png">>

SocialAmu == <<"https:", "//", "assets.amuniversal.com/", "GC", "_Social_", "a1b2">>

OtherUrl == <<"https:", "//", "x.example/", "img", ".png">>

RelAmu == <<"//", "assets.amuniversal.com/", "a1b2">>

\* what the page of The Far Side yields in the runs of main()
FarsideUrl == <<"https:", "//", "www.thefarside.com", "/", "img", ".jpeg">>

\* string leaves a payload can hold
LeafStrings == {UrlAmu, UrlCms, SocialCms, SocialAmu, OtherUrl, RelAmu}

\* URLs the markup can hold outside the payload
MarkupStrings == {UrlAmu, UrlFeatGo, UrlFeatAmu, SocialCms, SocialAmu, OtherUrl}

(***************************************************************************)
(* _is_social_card, _candidate_score                                       *)
(***************************************************************************)
_is_social_card(url) ==
    \/ Contains(url, <<"GC", "_Social_", "FB", "_">>)
    \/ Contains(url, <<"GC", "_Social_">>)

_candidate_score(url) ==
    (IF Contains(url, <<"assets.amuniversal.com/">>) THEN 100 ELSE 0)
    + (IF Contains(url, <<"feature", "assets.amuniversal.com/", "assets/">>)
         THEN 95 ELSE 0)
    + (IF Contains(url, <<"feature", "assets.gocomics.com/", "assets/">>)
         THEN 80 ELSE 0)
    + (IF Contains(url, <<"gocomicscms", "assets.gocomics.com/">>) THEN 40 ELSE 0)
    + (IF Contains(url, <<"width", "=2800">>) THEN 10 ELSE 0)
    - (IF _is_social_card(url) THEN 999 ELSE 0)

(***************************************************************************)
(* _walk_for_urls: the string leaves of the payload that start with        *)
(* http:// or https://, in traversal order.                                *)
(***************************************************************************)
IsAbsoluteUrl(s) ==
    StartsWith(s, <<"http:", "//">>) \/ StartsWith(s, <<"https:", "//">>)

_walk_for_urls(leaves) == SelectSeq(leaves, IsAbsoluteUrl)

(***************************************************************************)
(* list.sort(key=_candidate_score, reverse=True): a stable sort, equal     *)
(* scores keep their order.                                                *)
(***************************************************************************)
RECURSIVE InsertByScore(_, _)
InsertByScore(sorted, u) ==
    IF sorted = <<>> THEN <<u>>
    ELSE IF _candidate_score(Head(sorted)) >= _candidate_score(u)
         THEN <<Head(sorted)>> \o InsertByScore(Tail(sorted), u)
         ELSE <<u>> \o sorted

\* mutant of SortByScore: the candidates are left in the order found
SortSkipped(urls) == urls

RECURSIVE SortByScore(_)
SortByScore(urls) ==
    IF urls = <<>> THEN <<>>
    ELSE InsertByScore(SortByScore(SubSeq(urls, 1, Len(urls) - 1)), urls[Len(urls)])

(***************************************************************************)
(* re.findall(pattern, html) for the four patterns of the fallback scan.   *)
(* A pattern is a literal prefix followed by one or more characters of a   *)
(* class: [A-Za-z0-9] (alnum) or [^\s"'].  Matches are leftmost, greedy    *)
(* and do not overlap.                                                     *)
(***************************************************************************)
InClass(tok, alnum) ==
    IF alnum THEN tok \in AlnumToks ELSE tok \notin DelimToks

\* the last index of the maximal run of class tokens that starts at j
RunEnd(h, j, alnum) ==
    CHOOSE e \in j..Len(h) :
        /\ \A k \in j..e : InClass(h[k], alnum)
        /\ e = Len(h) \/ ~InClass(h[e + 1], alnum)

MatchesAt(h, i, prefix, alnum) ==
    /\ i + Len(prefix) <= Len(h)
    /\ \A j \in 1..Len(prefix) : h[i + j - 1] = prefix[j]
    /\ InClass(h[i + Len(prefix)], alnum)

RECURSIVE FindAllFrom(_, _, _, _)
FindAllFrom(h, i, prefix, alnum) ==
    IF i > Len(h) THEN <<>>
    ELSE IF MatchesAt(h, i, prefix, alnum)
         THEN LET e == RunEnd(h, i + Len(prefix), alnum)
              IN  <<SubSeq(h, i, e)>> \o FindAllFrom(h, e + 1, prefix, alnum)
         ELSE FindAllFrom(h, i + 1, prefix, alnum)

\* the patterns list of fetch_gocomics_strip_image_url
patterns ==
    << [prefix |-> <<"https:", "//", "assets.amuniversal.com/">>, alnum |-> TRUE],
       [prefix |-> <<"https:", "//", "feature", "assets.gocomics.com/", "assets/">>,
        alnum |-> FALSE],
       [prefix |-> <<"https:", "//", "gocomicscms", "assets.gocomics.com/">>,
        alnum |-> FALSE],
       [prefix |-> <<"https:", "//", "feature", "assets.amuniversal.com/", "assets/">>,
        alnum |-> FALSE] >>

RECURSIVE ScanPatterns(_, _)
ScanPatterns(h, n) ==
    IF n > Len(patterns) THEN <<>>
    ELSE FindAllFrom(h, 1, patterns[n].prefix, patterns[n].alnum)
           \o ScanPatterns(h, n + 1)

(***************************************************************************)
(* A page as the server returns it.  http: whether requests.get and        *)
(* raise_for_status succeed; script: the <script id="__NEXT_DATA__">       *)
(* element ("none": absent or empty, "invalid": its text is not JSON,      *)
(* "valid"); leaves: the string leaves of its JSON text in traversal       *)
(* order; markup: the URLs in attribute values outside the script.         *)
(* RawHtml is r.text: every URL stands between double quotes, the script   *)
(* after the markup, JSON strings written without escapes.                 *)
(***************************************************************************)
RECURSIVE Quoted(_)
Quoted(strs) ==
    IF strs = <<>> THEN <<>>
    ELSE <<"\"">> \o Head(strs) \o <<"\"", " ">> \o Quoted(Tail(strs))

RawHtml(page) ==
    Quoted(page.markup) \o (IF page.script = "none" THEN <<>> ELSE Quoted(page.leaves))

Raise == [kind |-> "raise", url |-> EmptyStr]

Return(u) == [kind |-> "url", url |-> u]

\* the filter of the payload branch (source lines 125-134)
IsAssetHost(u) ==
    \/ Contains(u, <<"assets.amuniversal.com/">>)
    \/ Contains(u, <<"feature", "assets.gocomics.com/", "assets/">>)
    \/ Contains(u, <<"gocomicscms", "assets.gocomics.com/">>)
    \/ Contains(u, <<"feature", "assets.amuniversal.com/", "assets/">>)

KeepPayloadUrl(u) == IsAssetHost(u) /\ ~_is_social_card(u)

\* the candidates of the payload branch after filtering; json.loads raising
\* is swallowed by the except clause and leaves none
PayloadCandidates(page) ==
    IF page.script = "valid"
    THEN SelectSeq(_walk_for_urls(page.leaves), KeepPayloadUrl)
    ELSE <<>>

KeepScannedUrl(u) == ~_is_social_card(u)

\* the candidates of the fallback scan after filtering (source lines 150-154)
ScanCandidates(page) == SelectSeq(ScanPatterns(RawHtml(page), 1), KeepScannedUrl)

fetch_gocomics_strip_image_url(page) ==
    IF page.http # "ok" THEN Raise
    ELSE IF PayloadCandidates(page) # <<>>
         THEN Return(SortByScore(PayloadCandidates(page))[1])
         ELSE IF ScanCandidates(page) # <<>>
              THEN Return(SortByScore(ScanCandidates(page))[1])
              ELSE Raise

(***************************************************************************)
(* fetch_farside_image_url.  metas: for each of og:image, twitter:image    *)
(* and twitter:image:src the content attribute of the first meta tag of    *)
(* that property or name, when there is one.                               *)
(***************************************************************************)
RECURSIVE Strip(_)
Strip(s) ==
    IF s = <<>> THEN s
    ELSE IF Head(s) = " " THEN Strip(Tail(s))
    ELSE IF s[Len(s)] = " " THEN Strip(SubSeq(s, 1, Len(s) - 1))
    ELSE s

NoMeta == [present |-> FALSE, content |-> EmptyStr]

Meta(c) == [present |-> TRUE, content |-> c]

\* tag and tag.get("content")
HasContent(m) == m.present /\ m.content # EmptyStr

FarsideCandidates(page) ==
    LET found == SelectSeq(page.metas, HasContent)
    IN  [i \in 1..Len(found) |-> Strip(found[i].content)]

CleanFarsideUrl(u) ==
    IF StartsWith(u, <<"//">>) THEN <<"https:">> \o u
    ELSE IF StartsWith(u, <<"/">>)
         THEN <<"https:", "//", "www.thefarside.com">> \o u
         ELSE u

NotLogo(u) == u # EmptyStr /\ ~Contains(Lower(u), <<"logo">>)

FarsideCleaned(page) ==
    LET c == FarsideCandidates(page)
    IN  SelectSeq([i \in 1..Len(c) |-> CleanFarsideUrl(c[i])], NotLogo)

fetch_farside_image_url(page) ==
    IF page.http # "ok" THEN Raise
    ELSE IF FarsideCleaned(page) # <<>> THEN Return(FarsideCleaned(page)[1])
    ELSE Raise

(***************************************************************************)
(* COMICS and fetch_strip_image_url.  host is urlparse(url).netloc.lower() *)
(***************************************************************************)
COMICS ==
    << [name |-> "Garfield", slug |-> "garfield",
        host |-> <<"www.", "gocomics.com">>],
       [name |-> "Peanuts", slug |-> "peanuts",
        host |-> <<"www.", "gocomics.com">>],
       [name |-> "Calvin and Hobbes", slug |-> "calvinandhobbes",
        host |-> <<"www.", "gocomics.com">>],
       [name |-> "The Far Side", slug |-> "farside",
        host |-> <<"www.", "thefarside.com">>] >>

fetch_strip_image_url(c, page) ==
    IF Contains(c.host, <<"gocomics.com">>) THEN fetch_gocomics_strip_image_url(page)
    ELSE IF Contains(c.host, <<"thefarside.com">>) THEN fetch_farside_image_url(page)
    ELSE Raise

(***************************************************************************)
(* _guess_ext and the file name of download_and_host_image.                *)
(***************************************************************************)
\* urlparse(url).path: from the first slash after the scheme to the query
\* (the tokens after the scheme that hold a slash)
SlashToks == {"/", "assets.amuniversal.com/", "assets.gocomics.com/", "x.example/"}

PathStart(url) ==
    IF \E i \in 3..Len(url) : url[i] \in SlashToks
    THEN CHOOSE i \in 3..Len(url) :
            /\ url[i] \in SlashToks
            /\ \A k \in 3..(i - 1) : url[k] \notin SlashToks
    ELSE Len(url) + 1

PathEnd(url) ==
    IF \E i \in 1..Len(url) : url[i] \in {"?", "#"}
    THEN (CHOOSE i \in 1..Len(url) :
            /\ url[i] \in {"?", "#"}
            /\ \A k \in 1..(i - 1) : url[k] \notin {"?", "#"}) - 1
    ELSE Len(url)

UrlPath(url) == Lower(SubSeq(url, PathStart(url), PathEnd(url)))

Extensions == <<".png", ".jpg", ".jpeg", ".gif", ".webp">>

RECURSIVE FirstExt(_, _)
\* the first extension of the list that occurs in the path
FirstExt(path, n) ==
    IF n > Len(Extensions) THEN ".jpg"
    ELSE IF Contains(path, <<Extensions[n]>>)
         THEN (IF Extensions[n] = ".jpeg" THEN ".jpg" ELSE Extensions[n])
         ELSE FirstExt(path, n + 1)

_guess_ext(url) == FirstExt(UrlPath(url), 1)

\* _guess_ext of every string an extractor of the model can return
ExtOf ==
    [u \in {EmptyStr, UrlAmu, UrlFeatGo, UrlFeatAmu, UrlCms, FarsideUrl}
        |-> _guess_ext(u)]

\* hashlib.sha1(img_url).hexdigest()[:12]: the 48-bit digest is taken to
\* differ for the different URLs of the model, so the URL stands for it
Sha1Hex12(url) == <<"sha1">> \o url

\* filename = f"{slug}-{day}-{h}{ext}"
\* (the extension is looked up in ExtOf, which holds _guess_ext of the
\* image URLs of the model)
Filename(img_url, slug, day) ==
    [slug |-> slug, day |-> day, h |-> Sha1Hex12(img_url), ext |-> ExtOf[img_url]]

\* f"{pages_base_url()}/images/{filename}"
HostedUrl(filename) ==
    <<"https://mclars27.github.io/my-comics-rss", "/images/", filename>>

(***************************************************************************)
(* The pages the sites serve in the runs of main().                        *)
(***************************************************************************)
ErrorPage ==
    [http |-> "error", script |-> "none", leaves |-> <<>>, markup |-> <<>>,
     metas |-> <<>>]

GoComicsPage(leaves, markup) ==
    [http |-> "ok", script |-> "valid", leaves |-> leaves, markup |-> markup,
     metas |-> <<>>]

FarsidePage(metas) ==
    [http |-> "ok", script |-> "none", leaves |-> <<>>, markup |-> <<>>,
     metas |-> metas]

PagesOf(c) ==
    IF c.slug = "garfield"
    THEN {ErrorPage, GoComicsPage(<<UrlAmu>>, <<SocialCms>>),
          GoComicsPage(<<OtherUrl>>, <<UrlFeatGo>>)}
    ELSE IF c.slug = "farside"
    THEN {ErrorPage,
          FarsidePage(<<Meta(<<"/", "LOGO", ".png">>), NoMeta,
                        Meta(<<" ", "/", "img", ".jpeg", " ">>)>>)}
    ELSE {ErrorPage, GoComicsPage(<<SocialCms, UrlAmu>>, <<>>)}

(***************************************************************************)
(* State of the runs of main().                                            *)
(***************************************************************************)
VARIABLES
    disk,       \* state.json: [exists, seen, history]
    files,      \* docs/images: the names of the cached image files
    feed,       \* docs/comics.xml: the ids of its items
    pc,         \* "idle", "loop", "save", "done", "crashed"
    state,      \* main: state, [seen, history]
    now,        \* main: now, the clock reading of the run
    today,      \* main: today
    new_items,  \* main: new_items
    idx,        \* main: the position of the for loop in COMICS
    runs,       \* runs started
    faults,     \* failures injected
    ev,         \* history: per source of this run, what its I/O did
    saves,      \* history: writes of state.json in this run
    gets,       \* history: per file name, the successful GETs of its image
    okcalls,    \* history: per file name, the calls that returned its path
    committed,  \* history: keys cached by a run that reached save_state
    extracted,  \* history: keys for which an extraction returned a URL
    rundates,   \* history: dates of the runs that reached save_state
    page,       \* SpecExtract: the page fetched
    result      \* SpecExtract: what fetch_gocomics_strip_image_url did

vars ==
    <<disk, files, feed, pc, state, now, today, new_items, idx, runs, faults,
      ev, saves, gets, okcalls, committed, extracted, rundates, page, result>>

mainvars ==
    <<disk, files, feed, pc, state, now, today, new_items, idx, runs, faults,
      ev, saves, gets, okcalls, committed, extracted, rundates>>

\* the cap of line 280
HISTORY_CAP == 90

\* dict.get and a count with default 0
Get(d, k) == IF k \in DOMAIN d THEN d[k] ELSE EmptyStr

Count(d, k) == IF k \in DOMAIN d THEN d[k] ELSE 0

Put(d, k, v) == [x \in DOMAIN d \cup {k} |-> IF x = k THEN v ELSE d[x]]

NoKeys == [x \in {} |-> EmptyStr]

\* key = f"{c['slug']}:{today}"
Key(c, day) == <<c.slug, day>>

\* the entry of lines 252-262; its title, link and html are made of the
\* source, the date and img, and are left out
RealEntry(c, day, clock, hosted_img_url) ==
    [id |-> Key(c, day), date |-> clock, img |-> hosted_img_url]

\* the link-only entry of lines 269-277
FallbackEntry(c, day, clock) ==
    [id |-> Key(c, day), date |-> clock, img |-> EmptyStr]

\* build_feed: the feed file is regenerated, one item per entry
build_feed(entries) == [i \in 1..Len(entries) |-> entries[i].id]

(***************************************************************************)
(* download_and_host_image.  net is what requests.get and raise_for_status *)
(* do when they are reached: "ok" or "error".                              *)
(***************************************************************************)
\* mutant of NeedsFetch: the image is fetched whether or not it is cached
NeedsFetchAlways(filename, cache) == TRUE

\* line 223: if not os.path.exists(local_path)
NeedsFetch(filename, cache) == filename \notin cache

\* what the call did: "cached" (no request), "fetched" (GET and file
\* write) or "failed" (the GET raised, no file opened)
DownloadEvent(img_url, slug, day, cache, net) ==
    IF ~NeedsFetch(Filename(img_url, slug, day), cache) THEN "cached"
    ELSE IF net = "ok" THEN "fetched"
    ELSE "failed"

\* the cache directory after the call
CacheAfter(img_url, slug, day, cache, net) ==
    IF DownloadEvent(img_url, slug, day, cache, net) = "fetched"
    THEN cache \cup {Filename(img_url, slug, day)}
    ELSE cache

download_and_host_image(img_url, slug, day, cache, net) ==
    IF DownloadEvent(img_url, slug, day, cache, net) = "failed" THEN Raise
    ELSE Return(HostedUrl(Filename(img_url, slug, day)))

(***************************************************************************)
(* The body of the for loop of main(), lines 239-278.                      *)
(***************************************************************************)
\* mutant of IsUnchanged: an unchanged URL is published again
IsUnchangedNever(c, seen, key, real_img_url) == FALSE

\* lines 245-247: the source is not Calvin and seen holds this very URL
IsUnchanged(c, seen, key, real_img_url) ==
    c.slug # "calvinandhobbes" /\ Get(seen, key) = real_img_url

\* mutant of SeenOnDownloadError: seen is updated before the download
SeenSetBeforeDownload(seen, key, real_img_url) == Put(seen, key, real_img_url)

\* line 250 is not reached when the download raises
SeenOnDownloadError(seen, key, real_img_url) == seen

\* mutant of OnException: the failure is logged, no entry is added
OnExceptionDropped(items, c, day, clock) == items

\* the except clause, lines 264-278
OnException(items, c, day, clock) == Append(items, FallbackEntry(c, day, clock))

\* [seen, items, cache, dl]: state["seen"], new_items and the image cache
\* after the iteration for c, and what the download did ("none": not called);
\* r is what fetch_strip_image_url did, net what the image GET does
Iteration(c, seen, items, cache, day, clock, r, net) ==
    LET key == Key(c, day)
        dl  == DownloadEvent(r.url, c.slug, day, cache, net)
        h   == download_and_host_image(r.url, c.slug, day, cache, net)
    IN  IF r.kind = "raise"
        THEN [seen |-> seen, items |-> OnException(items, c, day, clock),
              cache |-> cache, dl |-> "none"]
        ELSE IF IsUnchanged(c, seen, key, r.url)
        THEN [seen |-> seen, items |-> items, cache |-> cache, dl |-> "none"]
        ELSE IF h.kind = "raise"
        THEN [seen |-> SeenOnDownloadError(seen, key, r.url),
              items |-> OnException(items, c, day, clock),
              cache |-> CacheAfter(r.url, c.slug, day, cache, net), dl |-> dl]
        ELSE [seen |-> Put(seen, key, r.url),
              items |-> Append(items, RealEntry(c, day, clock, h.url)),
              cache |-> CacheAfter(r.url, c.slug, day, cache, net), dl |-> dl]

\* mutant of NewHistory: the history is not truncated
NewHistoryUncapped(items, history) == items \o history

\* mutant of NewHistory: the new entries are put behind the history
NewHistoryAppended(items, history) ==
    SubSeq(history \o items, 1,
           IF Len(items) + Len(history) < HISTORY_CAP
           THEN Len(items) + Len(history) ELSE HISTORY_CAP)

\* line 280: (new_items + state["history"])[:90]
NewHistory(items, history) ==
    SubSeq(items \o history, 1,
           IF Len(items) + Len(history) < HISTORY_CAP
           THEN Len(items) + Len(history) ELSE HISTORY_CAP)

(***************************************************************************)
(* Initial states.  The state file is absent (first run ever), or it is    *)
(* the one left by d earlier days, dates 1-d .. 0, with one run a day in   *)
(* which every source failed: link-only entries, nothing seen.             *)
(***************************************************************************)
ZeroState == [seen |-> NoKeys, history |-> <<>>]

RECURSIVE AllFallback(_, _, _)
AllFallback(n, day, clock) ==
    IF n = 0 THEN <<>>
    ELSE OnException(AllFallback(n - 1, day, clock), COMICS[n], day, clock)

RECURSIVE HistoryAfterFailedDays(_, _)
HistoryAfterFailedDays(k, d) ==
    IF k = 0 THEN <<>>
    ELSE NewHistory(AllFallback(Len(COMICS), k - d, k - d),
                    HistoryAfterFailedDays(k - 1, d))

\* days of history that fill the cap
FullDays == (HISTORY_CAP + Len(COMICS) - 1) \div Len(COMICS)

PrefillDays == {0} \cup {d \in (FullDays - PrefillSlack)..FullDays : d > 0}

StateFileAfter(d) ==
    [exists |-> d > 0, seen |-> NoKeys, history |-> HistoryAfterFailedDays(d, d)]

NoCount == [x \in {} |-> 0]

Pending == [kind |-> "pending", url |-> EmptyStr]

InitMain ==
    /\ disk \in {StateFileAfter(d) : d \in PrefillDays}
    /\ files = {}
    /\ feed = build_feed(disk.history)
    /\ pc = "idle"
    /\ state = ZeroState
    /\ now = 0
    /\ today = 1
    /\ new_items = <<>>
    /\ idx = 1
    /\ runs = 0
    /\ faults = 0
    /\ ev = <<>>
    /\ saves = 0
    /\ gets = NoCount
    /\ okcalls = NoCount
    /\ committed = {}
    /\ extracted = {}
    /\ rundates = {}

Init ==
    /\ InitMain
    /\ page = ErrorPage
    /\ result = Pending

(***************************************************************************)
(* main()                                                                  *)
(***************************************************************************)
\* load_state: the JSON document, or the zero value when the file is absent
load_state(d) ==
    IF d.exists THEN [seen |-> d.seen, history |-> d.history] ELSE ZeroState

\* lines 233-237; the first run is on date 1, a later one on the date of
\* the run before it or on the next day
Start ==
    /\ pc \in {"idle", "done", "crashed"}
    /\ runs < MaxRuns
    /\ \E d \in {today, today + 1} :
          /\ runs = 0 => d = today
          /\ today' = d
    /\ state' = load_state(disk)
    /\ now' = now + 1
    /\ new_items' = <<>>
    /\ idx' = 1
    /\ pc' = "loop"
    /\ runs' = runs + 1
    /\ ev' = <<>>
    /\ saves' = 0
    /\ UNCHANGED <<disk, files, feed, faults, gets, okcalls, committed, extracted,
                   rundates, page, result>>

\* line 241 on the pages of the model
Fetched ==
    [i \in 1..Len(COMICS) |->
        [pg \in PagesOf(COMICS[i]) |-> fetch_strip_image_url(COMICS[i], pg)]]

\* one iteration of the for loop, lines 239-278; a failure is injected
\* while fewer than cap have been
ProcessComic(cap) ==
    /\ pc = "loop"
    /\ idx <= Len(COMICS)
    /\ \E pg \in PagesOf(COMICS[idx]), net \in {"ok", "error"} :
          LET c  == COMICS[idx]
              r  == Fetched[idx][pg]
              it == Iteration(c, state.seen, new_items, files, today, now, r, net)
              f  == Filename(r.url, c.slug, today)
              injected == pg.http = "error" \/ it.dl = "failed"
          IN  /\ injected => faults < cap
              /\ faults' = IF injected THEN faults + 1 ELSE faults
              /\ state' = [state EXCEPT !.seen = it.seen]
              /\ new_items' = it.items
              /\ files' = it.cache
              /\ ev' = Append(ev, [fetch |-> r, dl |-> it.dl])
              /\ gets' = IF it.dl = "fetched" THEN Put(gets, f, Count(gets, f) + 1)
                         ELSE gets
              /\ okcalls' = IF it.dl \in {"cached", "fetched"}
                            THEN Put(okcalls, f, Count(okcalls, f) + 1)
                            ELSE okcalls
              /\ extracted' = IF r.kind = "url" THEN extracted \cup {Key(c, today)}
                              ELSE extracted
    /\ idx' = idx + 1
    /\ UNCHANGED <<disk, feed, pc, now, today, runs, saves, committed, rundates,
                   page, result>>

\* lines 280-281
BuildFeed ==
    /\ pc = "loop"
    /\ idx > Len(COMICS)
    /\ state' = [state EXCEPT !.history = NewHistory(new_items, state.history)]
    /\ feed' = build_feed(state'.history)
    /\ pc' = "save"
    /\ UNCHANGED <<disk, files, now, today, new_items, idx, runs, faults, ev,
                   saves, gets, okcalls, committed, extracted, rundates, page,
                   result>>

\* save_state: the document replaces the file
save_state(st) == [exists |-> TRUE, seen |-> st.seen, history |-> st.history]

\* mutant of CanSave: save_state is called inside the loop as well
CanSaveInLoop == pc \in {"loop", "save"}

\* line 282 is reached after build_feed returned
CanSave == pc = "save"

\* the keys whose image this run extracted and then cached
CachedInRun ==
    {Key(COMICS[i], today) : i \in {j \in 1..Len(ev) :
        ev[j].fetch.kind = "url" /\ ev[j].dl \in {"cached", "fetched"}}}

SaveState ==
    /\ CanSave
    /\ disk' = save_state(state)
    /\ saves' = saves + 1
    /\ pc' = "done"
    /\ committed' = committed \cup CachedInRun
    /\ rundates' = rundates \cup {today}
    /\ UNCHANGED <<files, feed, state, now, today, new_items, idx, runs, faults,
                   ev, gets, okcalls, extracted, page, result>>

\* the process dies during the loop, in build_feed or before save_state
\* (an error outside the try block, a kill): its memory is gone
Crash(cap) ==
    /\ pc \in {"loop", "save"}
    /\ faults < cap
    /\ faults' = faults + 1
    /\ pc' = "crashed"
    /\ state' = ZeroState
    /\ new_items' = <<>>
    /\ idx' = 1
    /\ ev' = <<>>
    /\ UNCHANGED <<disk, files, feed, now, today, runs, saves, gets, okcalls,
                   committed, extracted, rundates, page, result>>

\* Spec: up to MaxRuns runs with up to MaxFaults failures among them
Next ==
    \/ Start
    \/ ProcessComic(MaxFaults)
    \/ BuildFeed
    \/ SaveState
    \/ Crash(MaxFaults)

Spec == Init /\ [][Next]_vars

\* SpecRun: runs without a failure, then a last run in which any of the
\* sources can fail and the process can crash
LastRunFaults == IF runs = MaxRuns THEN Len(COMICS) + 1 ELSE 0

NextRun ==
    \/ Start
    \/ ProcessComic(LastRunFaults)
    \/ BuildFeed
    \/ SaveState
    \/ Crash(LastRunFaults)

SpecRun == Init /\ [][NextRun]_vars

(***************************************************************************)
(* SpecExtract: fetch_gocomics_strip_image_url on every page of the        *)
(* bounds.                                                                 *)
(***************************************************************************)
\* the pairs of a sequence of leaves and a sequence of markup URLs that
\* hold up to MaxUrls strings together
PageStrings ==
    UNION {UNION {[1..a -> LeafStrings] \X [1..b -> MarkupStrings] :
                     b \in 0..(MaxUrls - a)} : a \in 0..MaxUrls}

ExtractPages ==
    {ErrorPage} \cup
    {[http |-> "ok", script |-> sc, leaves |-> lm[1], markup |-> lm[2],
      metas |-> <<>>] : sc \in {"valid", "invalid"}, lm \in PageStrings} \cup
    {[http |-> "ok", script |-> "none", leaves |-> <<>>, markup |-> lm[2],
      metas |-> <<>>] : lm \in {x \in PageStrings : Len(x[1]) = 0}}

InitExtract ==
    /\ InitMain
    /\ disk = StateFileAfter(0)
    /\ page \in ExtractPages
    /\ result = Pending

Extract ==
    /\ result = Pending
    /\ result' = fetch_gocomics_strip_image_url(page)
    /\ UNCHANGED <<mainvars, page>>

SpecExtract == InitExtract /\ [][Extract]_vars

Range(f) == {f[i] : i \in DOMAIN f}

(***************************************************************************)
(* C7, C8: the URL fetch_gocomics_strip_image_url returns.                 *)
(***************************************************************************)
\* the absolute URLs written in the page, in the markup or in the payload
PageUrls(pg) ==
    {u \in Range(pg.markup) \cup (IF pg.script = "none" THEN {} ELSE Range(pg.leaves)) :
        IsAbsoluteUrl(u)}

SocialUrls(pg) == {u \in PageUrls(pg) : _is_social_card(u)}

LegitUrls(pg) == {u \in PageUrls(pg) : IsAssetHost(u) /\ ~_is_social_card(u)}

\* C7 as claimed: fetch_gocomics_strip_image_url never returns a social
\* card URL; on a page with a social card and a legitimate asset-host URL
\* it returns a legitimate one; on a page whose only asset-host URLs are
\* social cards it raises instead of returning something
C7_NeverSocialCard ==
    result # Pending =>
        /\ result.kind = "url" => ~_is_social_card(result.url)
        /\ (SocialUrls(page) # {} /\ LegitUrls(page) # {})
              => (result.kind = "url" /\ result.url \in LegitUrls(page))
        /\ LegitUrls(page) = {} => result = Raise

\* the pool of C8: what the payload walk and the markup scan find, social
\* cards excluded
Pool(pg) == Range(PayloadCandidates(pg)) \cup Range(ScanCandidates(pg))

\* C8 as claimed: the URL returned has the highest _candidate_score of the
\* pooled candidates of both strategies
C8_BestOfPool ==
    result.kind = "url" =>
        /\ result.url \in Pool(page)
        /\ \A u \in Pool(page) : _candidate_score(u) <= _candidate_score(result.url)

\* the candidates of the strategy that decides: the payload when it holds
\* an asset-host URL that is no social card, else the scan of the markup
Deciding(pg) ==
    IF Range(PayloadCandidates(pg)) # {} THEN Range(PayloadCandidates(pg))
    ELSE Range(ScanCandidates(pg))

\* C8 amended: the URL returned has the highest _candidate_score among the
\* candidates of the first strategy that finds any, the payload before the
\* scan, whatever the other strategy would score; the call raises exactly
\* when the page cannot be fetched or no strategy finds a candidate
C8_BestOfFirstStrategy ==
    result # Pending =>
        /\ result.kind = "url" =>
              /\ result.url \in Deciding(page)
              /\ \A u \in Deciding(page) :
                    _candidate_score(u) <= _candidate_score(result.url)
        /\ result = Raise <=> (page.http # "ok" \/ Deciding(page) = {})

\* a payload with two candidates of different scores, and a markup URL
\* that scores higher than both: the better payload URL was returned
C8_Witness ==
    /\ result.kind = "url"
    /\ \E u \in Range(PayloadCandidates(page)) :
          _candidate_score(u) < _candidate_score(result.url)
    /\ \E u \in Range(ScanCandidates(page)) :
          _candidate_score(u) > _candidate_score(result.url)

(***************************************************************************)
(* C1 .. C6, C9, C10: the runs of main().                                  *)
(***************************************************************************)
\* what the I/O of the i-th source of this run did
FetchRaised(i) == ev[i].fetch.kind = "raise"

DownloadRaised(i) == ev[i].dl = "failed"

SourceFailed(i) == FetchRaised(i) \/ DownloadRaised(i)

\* the extraction returned the URL that state.json held for the key when
\* the run loaded it (state.json is not written before the loop has ended)
SourceUnchanged(i) ==
    /\ ~FetchRaised(i)
    /\ COMICS[i].slug # "calvinandhobbes"
    /\ Get(disk.seen, Key(COMICS[i], today)) = ev[i].fetch.url

\* the positions of new_items that hold an entry of the i-th source
ItemsOf(i) == {k \in 1..Len(new_items) : new_items[k].id = Key(COMICS[i], today)}

\* C1: after the loop every source has been processed, whichever of them
\* raised; a source that raised (page fetch, extraction or image download)
\* has exactly one entry in new_items, with an empty img; a source that
\* neither raised nor was skipped has exactly one entry, with an image;
\* and while the loop runs a raising source only moves it to the next one
C1_FailureIsolated ==
    /\ pc = "loop" => Len(ev) = idx - 1
    /\ pc = "save" =>
          /\ Len(ev) = Len(COMICS)
          /\ \A i \in 1..Len(COMICS) :
                /\ SourceFailed(i) =>
                      /\ Cardinality(ItemsOf(i)) = 1
                      /\ \A k \in ItemsOf(i) : new_items[k].img = EmptyStr
                /\ (~SourceFailed(i) /\ ~SourceUnchanged(i)) =>
                      /\ Cardinality(ItemsOf(i)) = 1
                      /\ \A k \in ItemsOf(i) : new_items[k].img # EmptyStr
          /\ \A k \in 1..Len(new_items) : state.history[k] = new_items[k]

\* a finished loop in which one source failed at the page fetch, one at
\* the image download, one was skipped and one was published
C1_Witness ==
    /\ pc = "save"
    /\ \E i \in 1..Len(COMICS) : FetchRaised(i)
    /\ \E i \in 1..Len(COMICS) : DownloadRaised(i)
    /\ \E i \in 1..Len(COMICS) : ~SourceFailed(i) /\ SourceUnchanged(i)
    /\ \E i \in 1..Len(COMICS) : ~SourceFailed(i) /\ ~SourceUnchanged(i)

\* C2: state.json never holds more than 90 entries of history
C2_HistoryCapped == Len(disk.history) <= HISTORY_CAP

\* a completed run that filled the history and dropped an entry of the
\* history it had loaded
C2_Witness ==
    /\ pc = "done"
    /\ Len(disk.history) = HISTORY_CAP
    /\ disk.history[1].date = now
    /\ disk.history[HISTORY_CAP].date <= 0
    /\ \E e \in Range(StateFileAfter(FullDays).history) : e \notin Range(disk.history)

\* the place of a source in COMICS
SourceIndex(slug) == CHOOSE i \in 1..Len(COMICS) : COMICS[i].slug = slug

\* C3: when the history has been rebuilt, the entries of this run are at
\* its front, in the order of COMICS, followed by the history that was
\* loaded, in its order, as far as the cap of 90 allows: only the tail of
\* the loaded history is dropped; save_state writes that history
C3_NewestFirst ==
    /\ pc = "save" =>
          /\ Len(state.history) =
                (IF Len(new_items) + Len(disk.history) < HISTORY_CAP
                 THEN Len(new_items) + Len(disk.history) ELSE HISTORY_CAP)
          /\ \A k \in 1..Len(new_items) : state.history[k] = new_items[k]
          /\ \A a, b \in 1..Len(new_items) :
                a < b => SourceIndex(new_items[a].id[1]) < SourceIndex(new_items[b].id[1])
          /\ \A j \in 1..Len(disk.history) :
                Len(new_items) + j <= HISTORY_CAP
                    => state.history[Len(new_items) + j] = disk.history[j]
    /\ pc = "done" => disk.history = state.history

\* a rebuilt history with several new entries that dropped loaded ones
C3_Witness ==
    /\ pc = "save"
    /\ Len(new_items) >= 2
    /\ Len(new_items) + Len(disk.history) > HISTORY_CAP
    /\ runs = MaxRuns

\* the iteration for source idx has just run and recorded its I/O
Iterated == pc = "loop" /\ Len(ev') = Len(ev) + 1

\* C4: an iteration for a source other than Calvin whose extraction
\* returns the URL that seen held for slug:today when the state was loaded
\* adds no entry, leaves seen as it is and does not call the download; the
\* history built by that run holds no entry of this run for that source
C4_UnchangedSkipped ==
    /\ [][(/\ Iterated
            /\ COMICS[idx].slug # "calvinandhobbes"
            /\ ev'[idx].fetch.kind = "url"
            /\ Get(disk.seen, Key(COMICS[idx], today)) = ev'[idx].fetch.url)
           => (/\ new_items' = new_items
               /\ state'.seen = state.seen
               /\ ev'[idx].dl = "none"
               /\ files' = files
               /\ gets' = gets
               /\ okcalls' = okcalls)]_vars
    /\ [](pc = "save" =>
            \A i \in 1..Len(COMICS) :
                (~SourceFailed(i) /\ SourceUnchanged(i)) =>
                    \A k \in 1..Len(state.history) :
                        ~(state.history[k].id = Key(COMICS[i], today)
                          /\ state.history[k].date = now))

\* a source was skipped in this run
C4_Witness ==
    /\ pc = "save"
    /\ \E i \in 1..Len(COMICS) :
          /\ ~SourceFailed(i)
          /\ SourceUnchanged(i)
          /\ ItemsOf(i) = {}
          /\ Key(COMICS[i], today) \in DOMAIN state.seen

InRun == pc \in {"loop", "save", "done"}

\* C5 as claimed: seen holds slug:date if and only if an extraction for
\* that slug on that date returned a URL
C5_SeenIffExtracted == InRun => DOMAIN state.seen = extracted

\* C5 amended: seen holds slug:date if and only if, in this run or in a
\* run that reached save_state, the extraction for that slug on that date
\* returned a URL and the download of its image returned too; state.json
\* holds the keys of the runs that reached save_state
C5_SeenIffCached ==
    /\ InRun => DOMAIN state.seen = committed \cup CachedInRun
    /\ DOMAIN disk.seen = committed
    /\ committed \cup CachedInRun \subseteq extracted

\* an extraction returned a URL, the download of the image failed and the
\* key is not in seen
C5_Witness ==
    /\ pc = "loop"
    /\ \E i \in 1..Len(ev) :
          /\ ev[i].fetch.kind = "url"
          /\ DownloadRaised(i)
          /\ Key(COMICS[i], today) \in extracted
          /\ Key(COMICS[i], today) \notin DOMAIN state.seen

\* C6 as claimed: after a run, the history holds an entry slug:date for
\* every source and every date of a completed run, and no two entries have
\* the same id
C6_OneEntryPerSourcePerDay ==
    pc = "done" =>
        /\ \A d \in rundates : \A i \in 1..Len(COMICS) :
              \E k \in 1..Len(disk.history) : disk.history[k].id = Key(COMICS[i], d)
        /\ \A a, b \in 1..Len(disk.history) :
              a # b => disk.history[a].id # disk.history[b].id

AllFilenames == files \cup DOMAIN gets \cup DOMAIN okcalls

\* the file name of the download of the iteration that has just run
FileOfStep == Filename(ev'[idx].fetch.url, COMICS[idx].slug, today)

\* C9: the calls of download_and_host_image that returned the path of a
\* file made one GET and one write of it between them, however many they
\* are; a call whose GET fails leaves no file of that name; a call that
\* finds no file makes a GET, a call that finds the file makes none
C9_OneFetchPerFile ==
    /\ [](\A f \in AllFilenames :
            /\ Count(gets, f) <= 1
            /\ Count(okcalls, f) >= 1 => Count(gets, f) = 1
            /\ f \in files <=> Count(gets, f) = 1)
    /\ [][(Iterated /\ ev'[idx].dl # "none") =>
            /\ ev'[idx].dl = "failed" => FileOfStep \notin files'
            /\ FileOfStep \notin files => ev'[idx].dl \in {"fetched", "failed"}
            /\ FileOfStep \in files => (ev'[idx].dl = "cached" /\ gets' = gets)]_vars

\* two calls returned the path of a file that one GET fetched
C9_Witness == \E f \in AllFilenames : Count(okcalls, f) >= 2 /\ Count(gets, f) = 1

\* C10: a run writes state.json at most once; the write comes after the
\* loop has processed every source and the feed has been built from the
\* new history; nothing else changes state.json, so a run that crashes
\* leaves it as it was
C10_SavedOnceAtEnd ==
    /\ [](saves <= 1)
    /\ [][saves' = saves + 1 =>
            /\ Len(ev) = Len(COMICS)
            /\ feed = build_feed(state.history)
            /\ disk' = save_state(state)]_vars
    /\ [][disk' # disk => saves' = saves + 1]_vars
    /\ [][pc' = "crashed" => disk' = disk]_vars

\* a run crashed after caching an image and state.json is still absent
C10_Witness == pc = "crashed" /\ files # {} /\ ~disk.exists

====
